---------------------------- MODULE Spec2Model ----------------------------
(***************************************************************************)
(* Call-session orchestration of the voice sales agent: the telephony      *)
(* webhooks (telephony/router.py), the markup builders                     *)
(* (telephony/twilio_service.py), the greeting service                     *)
(* (services/greeting_service.py), the persistence gateway                 *)
(* (database/crud.py) and the media-stream endpoint (ai/router.py).        *)
(*                                                                         *)
(* Text is modelled as a sequence of tokens: a phone number is a sequence  *)
(* of one-character strings, an f-string is the concatenation of its       *)
(* parts.  Python's None is the one-token sequence NONE.                   *)
(***************************************************************************)
EXTENDS Integers, Sequences, FiniteSets, TLC

VARIABLES
    personal_info,  \* rows of the personal_info table
    call,           \* the webhook request being handled
    session,        \* media-stream endpoint invocations, per connection
    initiate,       \* the initiate-call request being handled
    conversations,  \* rows of the conversations table, in id order
    last,           \* the gateway or prompt call being returned
    pair            \* two inbound webhooks being handled at the same time

vars == <<personal_info, call, session, initiate, conversations, last, pair>>

-----------------------------------------------------------------------------
(* Values *)

NONE == <<"None">>

\* no gateway or prompt call is being returned
IdleLast == [op |-> "none"]

\* Python truthiness of an Optional[str]
Truthy(x) == x # NONE /\ x # <<>>

\* str.replace(old, "") for a one-character old
RECURSIVE Remove(_, _)
Remove(s, ch) ==
    IF s = <<>> THEN <<>>
    ELSE IF Head(s) = ch THEN Remove(Tail(s), ch)
         ELSE <<Head(s)>> \o Remove(Tail(s), ch)

\* str.lstrip(ch)
RECURSIVE LStrip(_, _)
LStrip(s, ch) ==
    IF s # <<>> /\ Head(s) = ch THEN LStrip(Tail(s), ch) ELSE s

\* str.startswith(ch)
StartsWith(s, ch) == s # <<>> /\ Head(s) = ch


-----------------------------------------------------------------------------
(* Inputs *)

\* CallSid form values: absent, empty, two call identifiers
CallSids == { NONE, <<>>, <<"CA1">>, <<"CA2">> }

\* From form values: absent, empty, no leading "+", unknown country code,
\* parsable but too short, two valid numbers, one of them also written
\* with a separator
FromNumbers ==
    { NONE, <<>>,
      <<"1", "1", "1">>,
      <<"+", "2", "1", "1">>,
      <<"+", "1", "1">>,
      <<"+", "1", "1", "1">>,
      <<"+", "1", "-", "1", "1">>,
      <<"+", "1", "1", "2">> }

\* To form values
ToNumbers ==
    { NONE,
      <<"1", "2", "1">>,
      <<"+", "1", "2">>,
      <<"+", "1", "2", "1">>,
      <<"+", "1", "-", "2", "1">> }

Payloads == [CallSid : CallSids, From : FromNumbers, To : ToNumbers]

Names == { <<"Al">> }

Emails == { <<"al@x.io">> }

-----------------------------------------------------------------------------
(* phonenumbers, as used by parse_twilio_request with region None *)

NationalLen == 2

CountryCodes == { "1" }

Separators == { "-" }

RECURSIVE StripSeparators(_)
StripSeparators(s) ==
    IF s = <<>> THEN <<>>
    ELSE IF Head(s) \in Separators THEN StripSeparators(Tail(s))
         ELSE <<Head(s)>> \o StripSeparators(Tail(s))

\* phonenumbers.parse(raw, None) raises NumberParseException
NumberParseException(raw) ==
    LET s == StripSeparators(raw) IN
    \/ ~StartsWith(s, "+")
    \/ Len(s) < 3
    \/ s[2] \notin CountryCodes
    \/ \E i \in 2..Len(s) : s[i] = "+"

\* phonenumbers.parse(raw, None), when it does not raise
parse(raw) ==
    LET s == StripSeparators(raw) IN
    [country_code |-> s[2], national_number |-> SubSeq(s, 3, Len(s))]

is_valid_number(n) == Len(n.national_number) = NationalLen

\* phonenumbers.format_number(n, PhoneNumberFormat.E164)
format_number(n) == <<"+", n.country_code>> \o n.national_number

\* the two numbers FromNumbers can be normalised to, the one of ToNumbers
Phones == { format_number(parse(r)) :
              r \in { x \in (FromNumbers \cup ToNumbers) :
                        /\ Truthy(x)
                        /\ ~NumberParseException(x)
                        /\ is_valid_number(parse(x)) } }

\* parse_twilio_request without the is_valid_number checks
parse_twilio_request_unvalidated(form) ==
    LET from_raises == Truthy(form.From) /\ NumberParseException(form.From)
        to_raises   == Truthy(form.To) /\ NumberParseException(form.To)
        from_number ==
            IF Truthy(form.From) /\ ~from_raises
            THEN format_number(parse(form.From)) ELSE NONE
        to_number ==
            IF from_raises THEN NONE
            ELSE IF Truthy(form.To) /\ ~to_raises
                 THEN format_number(parse(form.To)) ELSE NONE
    IN [call_sid |-> form.CallSid, from_number |-> from_number, to_number |-> to_number]

\* parse_twilio_request: the dict it returns for a form.  A parse exception
\* on From leaves the try block before To is looked at.
parse_twilio_request(form) ==
    LET from_raises == Truthy(form.From) /\ NumberParseException(form.From)
        to_raises   == Truthy(form.To) /\ NumberParseException(form.To)
        from_number ==
            IF Truthy(form.From) /\ ~from_raises /\ is_valid_number(parse(form.From))
            THEN format_number(parse(form.From)) ELSE NONE
        to_number ==
            IF from_raises THEN NONE
            ELSE IF Truthy(form.To) /\ ~to_raises /\ is_valid_number(parse(form.To))
                 THEN format_number(parse(form.To)) ELSE NONE
    IN [call_sid |-> form.CallSid, from_number |-> from_number, to_number |-> to_number]

-----------------------------------------------------------------------------
(* Persistence gateway: database/crud.py on the personal_info table *)

\* a PersonalInfoDB row
PersonalInfoDB(phone_number, call_sid) ==
    [phone_number |-> phone_number, call_sid |-> call_sid,
     full_name |-> NONE, email |-> NONE]

\* the unique constraints of the table: phone_number, and call_sid where
\* it is not NULL
UniqueOk(rows) ==
    \A r1, r2 \in rows :
        r1 # r2 =>
            /\ r1.phone_number # r2.phone_number
            /\ (r1.call_sid # NONE => r1.call_sid # r2.call_sid)

\* db.query(PersonalInfoDB).filter(phone_number == p): the matching rows
Query(rows, phone_number) == { r \in rows : r.phone_number = phone_number }

Event(ev, a, b) == [ev |-> ev, a |-> a, b |-> b]

\* a gateway that creates the record without the call identifier
get_or_create_personal_info_without_call_sid(rows, phone_number, call_sid, fault) ==
    LET found == Query(rows, phone_number)
        read  == <<Event("db_read", phone_number, call_sid)>>
        write == <<Event("db_write", phone_number, call_sid)>>
    IN
    IF fault THEN
        [raised |-> TRUE, rows |-> rows, full_name |-> NONE, log |-> <<>>]
    ELSE IF found # {} THEN
        LET record  == CHOOSE r \in found : TRUE
            updated == (rows \ {record}) \cup {[record EXCEPT !.call_sid = call_sid]}
        IN
        IF Truthy(call_sid) /\ record.call_sid # call_sid THEN
            IF UniqueOk(updated) /\ Cardinality(updated) = Cardinality(rows)
            THEN [raised |-> FALSE, rows |-> updated,
                  full_name |-> record.full_name, log |-> read \o write]
            ELSE [raised |-> TRUE, rows |-> rows, full_name |-> NONE, log |-> read]
        ELSE [raised |-> FALSE, rows |-> rows,
              full_name |-> record.full_name, log |-> read]
    ELSE
        LET new_record == PersonalInfoDB(phone_number, NONE)
            inserted   == rows \cup {new_record}
        IN
        [raised |-> FALSE, rows |-> inserted, full_name |-> NONE,
         log |-> read \o write]

\* a gateway whose failed change of the call identifier loses the record
get_or_create_personal_info_loses_record(rows, phone_number, call_sid, fault) ==
    LET found == Query(rows, phone_number)
        read  == <<Event("db_read", phone_number, call_sid)>>
        write == <<Event("db_write", phone_number, call_sid)>>
    IN
    IF fault THEN
        [raised |-> TRUE, rows |-> rows, full_name |-> NONE, log |-> <<>>]
    ELSE IF found # {} THEN
        LET record  == CHOOSE r \in found : TRUE
            updated == (rows \ {record}) \cup {[record EXCEPT !.call_sid = call_sid]}
        IN
        IF Truthy(call_sid) /\ record.call_sid # call_sid THEN
            IF UniqueOk(updated) /\ Cardinality(updated) = Cardinality(rows)
            THEN [raised |-> FALSE, rows |-> updated,
                  full_name |-> record.full_name, log |-> read \o write]
            ELSE [raised |-> TRUE, rows |-> rows \ {record}, full_name |-> NONE,
                  log |-> read]
        ELSE [raised |-> FALSE, rows |-> rows,
              full_name |-> record.full_name, log |-> read]
    ELSE
        LET new_record == PersonalInfoDB(phone_number, call_sid)
            inserted   == rows \cup {new_record}
        IN
        IF UniqueOk(inserted)
        THEN [raised |-> FALSE, rows |-> inserted, full_name |-> NONE,
              log |-> read \o write]
        ELSE [raised |-> TRUE, rows |-> rows, full_name |-> NONE, log |-> read]

\* a gateway that stores whatever call identifier it is given, None included
get_or_create_personal_info_overwrites(rows, phone_number, call_sid, fault) ==
    LET found == Query(rows, phone_number)
        read  == <<Event("db_read", phone_number, call_sid)>>
        write == <<Event("db_write", phone_number, call_sid)>>
    IN
    IF fault THEN
        [raised |-> TRUE, rows |-> rows, full_name |-> NONE, log |-> <<>>]
    ELSE IF found # {} THEN
        LET record  == CHOOSE r \in found : TRUE
            updated == (rows \ {record}) \cup {[record EXCEPT !.call_sid = call_sid]}
        IN
        IF record.call_sid # call_sid THEN
            IF UniqueOk(updated) /\ Cardinality(updated) = Cardinality(rows)
            THEN [raised |-> FALSE, rows |-> updated,
                  full_name |-> record.full_name, log |-> read \o write]
            ELSE [raised |-> TRUE, rows |-> rows, full_name |-> NONE, log |-> read]
        ELSE [raised |-> FALSE, rows |-> rows,
              full_name |-> record.full_name, log |-> read]
    ELSE
        LET new_record == PersonalInfoDB(phone_number, call_sid)
            inserted   == rows \cup {new_record}
        IN
        IF UniqueOk(inserted)
        THEN [raised |-> FALSE, rows |-> inserted, full_name |-> NONE,
              log |-> read \o write]
        ELSE [raised |-> TRUE, rows |-> rows, full_name |-> NONE, log |-> read]

\* get_or_create_personal_info(db, phone_number, call_sid).  fault: the
\* storage is unavailable and the query raises.  A commit that would break
\* a unique constraint raises IntegrityError and stores nothing.
get_or_create_personal_info(rows, phone_number, call_sid, fault) ==
    LET found == Query(rows, phone_number)
        read  == <<Event("db_read", phone_number, call_sid)>>
        write == <<Event("db_write", phone_number, call_sid)>>
    IN
    IF fault THEN
        [raised |-> TRUE, rows |-> rows, full_name |-> NONE, log |-> <<>>]
    ELSE IF found # {} THEN
        LET record  == CHOOSE r \in found : TRUE
            updated == (rows \ {record}) \cup {[record EXCEPT !.call_sid = call_sid]}
        IN
        IF Truthy(call_sid) /\ record.call_sid # call_sid THEN
            IF UniqueOk(updated) /\ Cardinality(updated) = Cardinality(rows)
            THEN [raised |-> FALSE, rows |-> updated,
                  full_name |-> record.full_name, log |-> read \o write]
            ELSE [raised |-> TRUE, rows |-> rows, full_name |-> NONE, log |-> read]
        ELSE [raised |-> FALSE, rows |-> rows,
              full_name |-> record.full_name, log |-> read]
    ELSE
        LET new_record == PersonalInfoDB(phone_number, call_sid)
            inserted   == rows \cup {new_record}
        IN
        IF UniqueOk(inserted)
        THEN [raised |-> FALSE, rows |-> inserted, full_name |-> NONE,
              log |-> read \o write]
        ELSE [raised |-> TRUE, rows |-> rows, full_name |-> NONE, log |-> read]

\* an update that reports every record it found as changed
update_personal_info_found_is_changed(rows, phone_number, name, email) ==
    LET found == Query(rows, phone_number) IN
    IF found # {} THEN
        LET record == CHOOSE r \in found : TRUE
            set_name  == Truthy(name) /\ record.full_name # name
            set_email == Truthy(email) /\ record.email # email
            r1 == IF set_name THEN [record EXCEPT !.full_name = name] ELSE record
            r2 == IF set_email THEN [r1 EXCEPT !.email = email] ELSE r1
        IN
        [rows |-> (rows \ {record}) \cup {r2}, ret |-> TRUE]
    ELSE [rows |-> rows, ret |-> FALSE]

\* update_personal_info(db, phone_number, name, email)
update_personal_info(rows, phone_number, name, email) ==
    LET found == Query(rows, phone_number) IN
    IF found # {} THEN
        LET record == CHOOSE r \in found : TRUE
            set_name  == Truthy(name) /\ record.full_name # name
            set_email == Truthy(email) /\ record.email # email
            r1 == IF set_name THEN [record EXCEPT !.full_name = name] ELSE record
            r2 == IF set_email THEN [r1 EXCEPT !.email = email] ELSE r1
        IN
        IF set_name \/ set_email
        THEN [rows |-> (rows \ {record}) \cup {r2}, ret |-> TRUE]
        ELSE [rows |-> rows, ret |-> FALSE]
    ELSE [rows |-> rows, ret |-> FALSE]


-----------------------------------------------------------------------------
(* Call-control markup: telephony/twilio_service.py *)

\* settings.BASE_URL
BASE_URL == <<"http:", "//", "localhost:5050">>

\* request.base_url
RequestBaseUrl == <<"http:", "//", "localhost:5050", "/">>

\* str.split(sep) for a one-token separator: the sequence of parts
RECURSIVE Split(_, _)
Split(s, sep) ==
    IF s = <<>> THEN << <<>> >>
    ELSE LET rest == Split(Tail(s), sep) IN
         IF Head(s) = sep THEN << <<>> >> \o rest
         ELSE << <<Head(s)>> \o Head(rest) >> \o Tail(rest)

Verb(verb, arg) == [verb |-> verb, arg |-> arg]

\* the stream URL with its two path parameters exchanged
websocket_url_swapped(call_sid, phone_number) ==
    <<"wss://">> \o Split(BASE_URL, "//")[2] \o <<"/media-stream/">>
        \o phone_number \o <<"/">> \o call_sid

\* f"wss://{settings.BASE_URL.split('//')[1]}/media-stream/{call_sid}/{phone_number}"
websocket_url(call_sid, phone_number) ==
    <<"wss://">> \o Split(BASE_URL, "//")[2] \o <<"/media-stream/">>
        \o call_sid \o <<"/">> \o phone_number

\* create_greeting_and_connect_stream_twiml; raised: the IndexError of
\* split('//')[1] on a BASE_URL without "//"
create_greeting_and_connect_stream_twiml(greeting_audio_url, call_sid, phone_number) ==
    IF Len(Split(BASE_URL, "//")) < 2 THEN [raised |-> TRUE, twiml |-> <<>>]
    ELSE [raised |-> FALSE,
          twiml  |->
              (IF Truthy(greeting_audio_url)
               THEN <<Verb("Play", greeting_audio_url), Verb("Pause", <<"1">>)>>
               ELSE <<Verb("Say", <<"Connecting your call.">>)>>)
              \o <<Verb("Connect", websocket_url(call_sid, phone_number))>>]

\* create_outgoing_connect_stream_twiml
create_outgoing_connect_stream_twiml(call_sid, to_phone_number) ==
    IF Len(Split(BASE_URL, "//")) < 2 THEN [raised |-> TRUE, twiml |-> <<>>]
    ELSE [raised |-> FALSE,
          twiml  |-> <<Verb("Say", <<"Hello! This is Alex from Super Truck AI.">>),
                       Verb("Connect", websocket_url(call_sid, to_phone_number))>>]

\* the fixed responses of the handlers
ErrorProcessingCall == <<Verb("Say", <<"Error processing call.">>)>>

InternalError == <<Verb("Say", <<"An internal error occurred.">>)>>

Hangup == <<Verb("Hangup", <<>>)>>

-----------------------------------------------------------------------------
(* Greeting service: services/greeting_service.py *)

greeting_filename(phone_number_cleaned) ==
    <<"greeting_">> \o phone_number_cleaned \o <<".mp3">>

greeting_text(full_name) ==
    IF Truthy(full_name)
    THEN <<"Hi ">> \o full_name
             \o <<", welcome back to Super Truck AI. How can I help you today?">>
    ELSE <<"Hi there! I'm Alex, your sales agent at Super Truck AI. How can I assist you?">>

\* get_greeting_url after the speech request has ended; tts_ok: the request
\* and the file write succeeded, otherwise the exception is re-raised
get_greeting_url(filename, tts_ok) ==
    IF tts_ok
    THEN [raised |-> FALSE, path |-> <<"/", "temp_audio_path", "/">> \o filename]
    ELSE [raised |-> TRUE, path |-> NONE]


-----------------------------------------------------------------------------
(* Webhook handlers: telephony/router.py *)

Entries == { "incoming", "agent", "outgoing" }

NoPayload == [CallSid |-> NONE, From |-> NONE, To |-> NONE]

\* what the handler met from outside, kept with the request: the table it
\* read, and whether the form read, the storage and the speech request
\* succeeded
NoEnv == [rows |-> {}, form_ok |-> TRUE, db_fault |-> FALSE,
          greeted |-> FALSE, tts_ok |-> TRUE]

\* a request as it reaches a handler
NewCall(entry, payload) ==
    [pc |-> "form", entry |-> entry, payload |-> payload,
     call_sid |-> NONE, phone_number |-> NONE, filename |-> NONE,
     log |-> <<>>, outcome |-> "none", response |-> <<>>, env |-> NoEnv]

IdleCall == [NewCall("none", NoPayload) EXCEPT !.pc = "idle"]

\* how a piece of a handler ends: it raises, it returns a response, or it
\* is suspended on the greeting collaborator
Raise(c, rows) == [kind |-> "raise", c |-> c, rows |-> rows]

Return(c, rows, content) ==
    [kind |-> "return", c |-> [c EXCEPT !.response = content], rows |-> rows]

Await(c, rows) == [kind |-> "await", c |-> c, rows |-> rows]

\* handle_incoming, lines 62-76: from the form to the speech request
handle_incoming_start(c, rows, form_ok, db_fault) ==
    IF ~form_ok THEN Raise(c, rows)
    ELSE
    LET data == parse_twilio_request(c.payload)
        call_sid == data.call_sid
        phone_number == data.from_number
    IN
    IF ~Truthy(call_sid) \/ ~Truthy(phone_number)
    THEN Return(c, rows, ErrorProcessingCall)
    ELSE
    LET got == get_or_create_personal_info(rows, phone_number, call_sid, db_fault)
        cleaned_number == Remove(phone_number, "+")
        resolved == <<Event("resolve", phone_number, call_sid)>> \o got.log
                        \o <<Event("resolved", got.full_name, <<>>)>>
        greet == <<Event("greet_req", got.full_name, cleaned_number),
                   Event("tts", greeting_text(got.full_name),
                         greeting_filename(cleaned_number))>>
    IN
    IF got.raised
    THEN Raise([c EXCEPT !.log = @ \o <<Event("resolve", phone_number, call_sid)>>
                                    \o got.log], got.rows)
    ELSE Await([c EXCEPT !.call_sid = call_sid,
                         !.phone_number = phone_number,
                         !.filename = greeting_filename(cleaned_number),
                         !.log = @ \o resolved \o greet], got.rows)

\* handle_incoming building the markup before it looks at the greeting
handle_incoming_greeted_emits_first(c, rows, tts_ok) ==
    LET got == get_greeting_url(c.filename, tts_ok)
        made == create_greeting_and_connect_stream_twiml(
                    RequestBaseUrl \o LStrip(got.path, "/"), c.call_sid, c.phone_number)
        c1 == [c EXCEPT !.log = @ \o <<Event("emit", c.call_sid, c.phone_number)>>]
    IN
    IF got.raised
    THEN Raise([c1 EXCEPT !.log = @ \o <<Event("greet_failed", <<>>, <<>>)>>], rows)
    ELSE Return([c1 EXCEPT !.log = @ \o <<Event("greeted", got.path, <<>>)>>],
                rows, made.twiml)

\* handle_incoming, lines 76-83: from the end of the speech request to the
\* response
handle_incoming_greeted(c, rows, tts_ok) ==
    LET got == get_greeting_url(c.filename, tts_ok) IN
    IF got.raised
    THEN Raise([c EXCEPT !.log = @ \o <<Event("greet_failed", <<>>, <<>>)>>], rows)
    ELSE
    LET full_greeting_url == RequestBaseUrl \o LStrip(got.path, "/")
        made == create_greeting_and_connect_stream_twiml(
                    full_greeting_url, c.call_sid, c.phone_number)
        c1 == [c EXCEPT !.log = @ \o <<Event("greeted", full_greeting_url, <<>>)>>]
    IN
    IF made.raised THEN Raise(c1, rows)
    ELSE Return([c1 EXCEPT !.log = @ \o <<Event("emit", c.call_sid, c.phone_number)>>],
                rows, made.twiml)

\* an except clause that undoes the record of the caller
handle_incoming_except_undoes(r) ==
    IF r.kind = "raise"
    THEN Return(r.c, r.rows \ Query(r.rows, r.c.phone_number), InternalError)
    ELSE r

\* handle_incoming without its except clause
handle_incoming_except_absent(r) == r

\* handle_incoming, lines 85-87: except Exception
handle_incoming_except(r) ==
    IF r.kind = "raise" THEN Return(r.c, r.rows, InternalError) ELSE r

\* handle_agent_incoming with the greeting file of the dialed number
handle_agent_incoming_start_greets_agent(c, rows, form_ok, db_fault) ==
    IF ~form_ok THEN Raise(c, rows)
    ELSE
    LET data == parse_twilio_request(c.payload)
        call_sid == data.call_sid
        phone_number == data.from_number
        agent_number == data.to_number
    IN
    IF ~Truthy(call_sid) \/ ~Truthy(phone_number) \/ ~Truthy(agent_number)
    THEN Return(c, rows, ErrorProcessingCall)
    ELSE
    LET got == get_or_create_personal_info(rows, phone_number, call_sid, db_fault)
        cleaned_number == Remove(agent_number, "+")
        resolved == <<Event("resolve", phone_number, call_sid)>> \o got.log
                        \o <<Event("resolved", got.full_name, <<>>)>>
        greet == <<Event("greet_req", got.full_name, cleaned_number),
                   Event("tts", greeting_text(got.full_name),
                         greeting_filename(cleaned_number))>>
    IN
    IF got.raised
    THEN Raise([c EXCEPT !.log = @ \o <<Event("resolve", phone_number, call_sid)>>
                                    \o got.log], got.rows)
    ELSE Await([c EXCEPT !.call_sid = call_sid,
                         !.phone_number = phone_number,
                         !.filename = greeting_filename(cleaned_number),
                         !.log = @ \o resolved \o greet], got.rows)

\* handle_agent_incoming, lines 96-114
handle_agent_incoming_start(c, rows, form_ok, db_fault) ==
    IF ~form_ok THEN Raise(c, rows)
    ELSE
    LET data == parse_twilio_request(c.payload)
        call_sid == data.call_sid
        phone_number == data.from_number
        agent_number == data.to_number
    IN
    IF ~Truthy(call_sid) \/ ~Truthy(phone_number) \/ ~Truthy(agent_number)
    THEN Return(c, rows, ErrorProcessingCall)
    ELSE
    LET got == get_or_create_personal_info(rows, phone_number, call_sid, db_fault)
        cleaned_number == Remove(phone_number, "+")
        resolved == <<Event("resolve", phone_number, call_sid)>> \o got.log
                        \o <<Event("resolved", got.full_name, <<>>)>>
        greet == <<Event("greet_req", got.full_name, cleaned_number),
                   Event("tts", greeting_text(got.full_name),
                         greeting_filename(cleaned_number))>>
    IN
    IF got.raised
    THEN Raise([c EXCEPT !.log = @ \o <<Event("resolve", phone_number, call_sid)>>
                                    \o got.log], got.rows)
    ELSE Await([c EXCEPT !.call_sid = call_sid,
                         !.phone_number = phone_number,
                         !.filename = greeting_filename(cleaned_number),
                         !.log = @ \o resolved \o greet], got.rows)

\* handle_agent_incoming connecting the stream under the dialed number
handle_agent_incoming_greeted_dialed(c, rows, tts_ok) ==
    LET got == get_greeting_url(c.filename, tts_ok) IN
    IF got.raised
    THEN Raise([c EXCEPT !.log = @ \o <<Event("greet_failed", <<>>, <<>>)>>], rows)
    ELSE
    LET full_greeting_url == RequestBaseUrl \o LStrip(got.path, "/")
        agent_number == parse_twilio_request(c.payload).to_number
        made == create_greeting_and_connect_stream_twiml(
                    full_greeting_url, c.call_sid, agent_number)
        c1 == [c EXCEPT !.log = @ \o <<Event("greeted", full_greeting_url, <<>>)>>]
    IN
    IF made.raised THEN Raise(c1, rows)
    ELSE Return([c1 EXCEPT !.log = @ \o <<Event("emit", c.call_sid, agent_number)>>],
                rows, made.twiml)

\* handle_agent_incoming falling back to the spoken line when the greeting
\* fails
handle_agent_incoming_greeted_degrades(c, rows, tts_ok) ==
    LET got == get_greeting_url(c.filename, tts_ok)
        full_greeting_url ==
            IF got.raised THEN NONE ELSE RequestBaseUrl \o LStrip(got.path, "/")
        made == create_greeting_and_connect_stream_twiml(
                    full_greeting_url, c.call_sid, c.phone_number)
        c1 == [c EXCEPT !.log = @ \o <<Event(IF got.raised THEN "greet_failed" ELSE "greeted",
                                            full_greeting_url, <<>>)>>]
    IN
    IF made.raised THEN Raise(c1, rows)
    ELSE Return([c1 EXCEPT !.log = @ \o <<Event("emit", c.call_sid, c.phone_number)>>],
                rows, made.twiml)

\* handle_agent_incoming, lines 114-120
handle_agent_incoming_greeted(c, rows, tts_ok) ==
    LET got == get_greeting_url(c.filename, tts_ok) IN
    IF got.raised
    THEN Raise([c EXCEPT !.log = @ \o <<Event("greet_failed", <<>>, <<>>)>>], rows)
    ELSE
    LET full_greeting_url == RequestBaseUrl \o LStrip(got.path, "/")
        made == create_greeting_and_connect_stream_twiml(
                    full_greeting_url, c.call_sid, c.phone_number)
        c1 == [c EXCEPT !.log = @ \o <<Event("greeted", full_greeting_url, <<>>)>>]
    IN
    IF made.raised THEN Raise(c1, rows)
    ELSE Return([c1 EXCEPT !.log = @ \o <<Event("emit", c.call_sid, c.phone_number)>>],
                rows, made.twiml)

\* handle_agent_incoming, lines 122-124: except Exception
handle_agent_incoming_except(r) ==
    IF r.kind = "raise" THEN Return(r.c, r.rows, InternalError) ELSE r

\* handle_outgoing_handler resolving the callee as the inbound handlers
\* resolve the caller
handle_outgoing_handler_start_resolves(c, rows, form_ok) ==
    IF ~form_ok THEN Raise(c, rows)
    ELSE
    LET data == parse_twilio_request(c.payload)
        call_sid == data.call_sid
        to_number == data.to_number
    IN
    IF ~Truthy(call_sid) \/ ~Truthy(to_number)
    THEN Return(c, rows, Hangup)
    ELSE
    LET got == get_or_create_personal_info(rows, to_number, call_sid, FALSE)
        made == create_outgoing_connect_stream_twiml(call_sid, to_number)
        c1 == [c EXCEPT !.call_sid = call_sid, !.phone_number = to_number,
                        !.log = @ \o <<Event("resolve", to_number, call_sid)>> \o got.log]
    IN
    IF got.raised \/ made.raised THEN Raise(c1, got.rows)
    ELSE Return([c1 EXCEPT !.log = @ \o <<Event("emit", call_sid, to_number)>>],
                got.rows, made.twiml)

\* handle_outgoing_handler, lines 133-147
handle_outgoing_handler_start(c, rows, form_ok) ==
    IF ~form_ok THEN Raise(c, rows)
    ELSE
    LET data == parse_twilio_request(c.payload)
        call_sid == data.call_sid
        to_number == data.to_number
    IN
    IF ~Truthy(call_sid) \/ ~Truthy(to_number)
    THEN Return(c, rows, Hangup)
    ELSE
    LET made == create_outgoing_connect_stream_twiml(call_sid, to_number)
        c1 == [c EXCEPT !.call_sid = call_sid, !.phone_number = to_number]
    IN
    IF made.raised THEN Raise(c1, rows)
    ELSE Return([c1 EXCEPT !.log = @ \o <<Event("emit", call_sid, to_number)>>],
                rows, made.twiml)

\* handle_outgoing_handler, lines 149-151: except Exception
handle_outgoing_handler_except(r) ==
    IF r.kind = "raise" THEN Return(r.c, r.rows, Hangup) ELSE r


\* the handler of an entry point, up to its first suspension or its response
StartOf(entry, c, rows, form_ok, db_fault) ==
    CASE entry = "incoming" ->
            handle_incoming_except(handle_incoming_start(c, rows, form_ok, db_fault))
      [] entry = "agent" ->
            handle_agent_incoming_except(
                handle_agent_incoming_start(c, rows, form_ok, db_fault))
      [] OTHER ->
            handle_outgoing_handler_except(handle_outgoing_handler_start(c, rows, form_ok))

\* the handler of an inbound entry point, once the speech request has ended
ResumeOf(entry, c, rows, tts_ok) ==
    CASE entry = "incoming" ->
            handle_incoming_except(handle_incoming_greeted(c, rows, tts_ok))
      [] OTHER ->
            handle_agent_incoming_except(handle_agent_incoming_greeted(c, rows, tts_ok))

\* the request after a piece of its handler has run: an exception that
\* leaves the handler is an unhandled fault, not a response
Settle(r) ==
    CASE r.kind = "return" -> [r.c EXCEPT !.pc = "done", !.outcome = "response"]
      [] r.kind = "raise"  -> [r.c EXCEPT !.pc = "done", !.outcome = "fault"]
      [] OTHER             -> [r.c EXCEPT !.pc = "greeting"]

\* a whole handler run on one request: entry point, form, table, and what
\* the collaborators do
Run(entry, payload, rows, form_ok, db_fault, tts_ok) ==
    LET r1 == StartOf(entry, NewCall(entry, payload), rows, form_ok, db_fault) IN
    IF r1.kind = "await" THEN Settle(ResumeOf(entry, r1.c, r1.rows, tts_ok))
    ELSE Settle(r1)

\* the carrier posts a webhook
Request(entry, payload) ==
    /\ call.pc = "idle"
    /\ call' = NewCall(entry, payload)
    /\ UNCHANGED <<personal_info, session, initiate, conversations, last, pair>>

\* a handler runs from the form to its response or to the speech request
Start(entry, form_ok, db_fault) ==
    /\ call.pc = "form"
    /\ call.entry = entry
    /\ LET c == [call EXCEPT !.env = [@ EXCEPT !.rows = personal_info,
                                                !.form_ok = form_ok,
                                                !.db_fault = db_fault]]
           r == StartOf(entry, c, personal_info, form_ok, db_fault)
       IN /\ call' = Settle(r)
          /\ personal_info' = r.rows
    /\ UNCHANGED <<session, initiate, conversations, last, pair>>

\* a handler resumes when the speech request has ended
Resume(entry, tts_ok) ==
    /\ call.pc = "greeting"
    /\ call.entry = entry
    /\ LET c == [call EXCEPT !.env = [@ EXCEPT !.greeted = TRUE, !.tts_ok = tts_ok]]
           r == ResumeOf(entry, c, personal_info, tts_ok)
       IN /\ call' = Settle(r)
          /\ personal_info' = r.rows
    /\ UNCHANGED <<session, initiate, conversations, last, pair>>

handle_incoming ==
    \/ \E form_ok, db_fault \in BOOLEAN : Start("incoming", form_ok, db_fault)
    \/ \E tts_ok \in BOOLEAN : Resume("incoming", tts_ok)

handle_agent_incoming ==
    \/ \E form_ok, db_fault \in BOOLEAN : Start("agent", form_ok, db_fault)
    \/ \E tts_ok \in BOOLEAN : Resume("agent", tts_ok)

handle_outgoing_handler ==
    \E form_ok \in BOOLEAN : Start("outgoing", form_ok, FALSE)

\* the response is sent and the request is over
Respond ==
    /\ call.pc = "done"
    /\ call' = IdleCall
    /\ UNCHANGED <<personal_info, session, initiate, conversations, last, pair>>

\* a name or an email is stored for a caller
UpdatePersonalInfo(phone_number, name, email) ==
    /\ personal_info' = update_personal_info(personal_info, phone_number, name, email).rows
    /\ UNCHANGED <<call, session, initiate, conversations, last, pair>>


-----------------------------------------------------------------------------
(* Media-stream endpoint: ai/router.py *)

MaxSessions == 2

Sessions == 1..MaxSessions

\* how handler.start() ends: it returns, it raises WebSocketDisconnect, it
\* raises another Exception, or the task of the call is cancelled
Exits == { "returned", "disconnect", "error", "cancelled" }

IdleSession ==
    [pc |-> "idle", call_sid |-> NONE, phone_number |-> NONE,
     state |-> "NONE", held |-> FALSE, releases |-> 0, stops |-> 0,
     exit |-> "none", raised |-> "none"]

\* RealtimeOpenAIHandler(websocket, SessionLocal, call_sid, phone_number)
RealtimeOpenAIHandler(h, call_sid, phone_number) ==
    [h EXCEPT !.call_sid = call_sid, !.phone_number = phone_number,
              !.state = "CREATED"]

\* RealtimeOpenAIHandler.start(): the session runs and holds its resources
RealtimeOpenAIHandler_start(h) == [h EXCEPT !.state = "RUNNING", !.held = TRUE]

\* RealtimeOpenAIHandler.stop(): releases what the session holds, once
RealtimeOpenAIHandler_stop(h) ==
    IF h.state = "STOPPED" THEN h
    ELSE [h EXCEPT !.state = "STOPPED", !.held = FALSE, !.releases = @ + 1]

\* media_stream_endpoint, lines 34-39: the except clause that takes the way
\* start() ended, if any
media_stream_endpoint_catches(exit) == exit \in { "disconnect", "error" }

\* an except clause that closes the resources of the session itself
media_stream_endpoint_except_closes(h) ==
    [h EXCEPT !.held = FALSE, !.releases = @ + 1, !.stops = @ + 1]

\* media_stream_endpoint, lines 36 and 39: await handler.stop()
media_stream_endpoint_except(h) ==
    [RealtimeOpenAIHandler_stop(h) EXCEPT !.stops = @ + 1]

\* a finally clause that only logs
media_stream_endpoint_finally_no_stop(h) == h

\* media_stream_endpoint, lines 40-43: finally, await handler.stop()
media_stream_endpoint_finally(h) ==
    [RealtimeOpenAIHandler_stop(h) EXCEPT !.stops = @ + 1]

\* lines 26-30: the connection is accepted and its handler constructed
Accept(s, call_sid, phone_number) ==
    /\ session[s].pc = "idle"
    /\ session' = [session EXCEPT ![s] =
            [RealtimeOpenAIHandler(@, call_sid, phone_number) EXCEPT !.pc = "accepted"]]
    /\ UNCHANGED <<personal_info, call, initiate, conversations, last, pair>>

\* line 33: handler.start() is invoked
StartSession(s) ==
    /\ session[s].pc = "accepted"
    /\ session' = [session EXCEPT ![s] =
            [RealtimeOpenAIHandler_start(@) EXCEPT !.pc = "running"]]
    /\ UNCHANGED <<personal_info, call, initiate, conversations, last, pair>>

\* lines 33-39: handler.start() ends
StartEnds(s, exit) ==
    /\ session[s].pc = "running"
    /\ session' = [session EXCEPT ![s] =
            [@ EXCEPT !.exit = exit,
                      !.pc = IF media_stream_endpoint_catches(exit)
                             THEN "except" ELSE "finally",
                      !.raised = IF exit = "cancelled" THEN "cancelled" ELSE "none"]]
    /\ UNCHANGED <<personal_info, call, initiate, conversations, last, pair>>

\* an except clause that stops the handler of every connection
ExceptStopEvery(s) ==
    /\ session[s].pc = "except"
    /\ session' = [t \in Sessions |->
            IF t = s
            THEN [media_stream_endpoint_except(session[t]) EXCEPT !.pc = "finally"]
            ELSE RealtimeOpenAIHandler_stop(session[t])]
    /\ UNCHANGED <<personal_info, call, initiate, conversations, last, pair>>

\* lines 36 and 39: the except clause stops the handler
ExceptStop(s) ==
    /\ session[s].pc = "except"
    /\ session' = [session EXCEPT ![s] =
            [media_stream_endpoint_except(@) EXCEPT !.pc = "finally"]]
    /\ UNCHANGED <<personal_info, call, initiate, conversations, last, pair>>

\* lines 40-43: the finally clause stops the handler and the endpoint ends
FinallyStop(s) ==
    /\ session[s].pc = "finally"
    /\ session' = [session EXCEPT ![s] =
            [media_stream_endpoint_finally(@) EXCEPT !.pc = "done"]]
    /\ UNCHANGED <<personal_info, call, initiate, conversations, last, pair>>

media_stream_endpoint ==
    \E s \in Sessions :
        \/ \E call_sid \in { <<"CA1">>, <<"CA2">> }, phone_number \in Phones :
                Accept(s, call_sid, phone_number)
        \/ StartSession(s)
        \/ \E exit \in Exits : StartEnds(s, exit)
        \/ ExceptStop(s)
        \/ FinallyStop(s)

-----------------------------------------------------------------------------
(* Initiate-call endpoint: telephony/router.py, twilio_service.py *)

MaxRawLen == 4

Alphabet == { "+", "1", "2", "-" }

\* the strings a client can pass as to_number, up to MaxRawLen characters
RawStrings == UNION { [1..k -> Alphabet] : k \in 0..MaxRawLen }

\* the call identifiers twilio_client.calls.create can return
NewCallSids == { <<"CA1">>, <<"CA2">> }

\* placed: the destinations handed to twilio_client.calls.create;
\* created: what each of those calls gave back, NONE for an exception
IdleInitiate ==
    [pc |-> "idle", to_number |-> <<>>, placed |-> <<>>, created |-> <<>>,
     status |-> "none", message |-> <<>>, call_sid |-> NONE]

\* a validation that only rejects the empty destination
initiate_outgoing_call_invalid_empty_only(to_number) == to_number = <<>>

\* initiate_outgoing_call, lines 160-161: the ValueError of the validation
initiate_outgoing_call_invalid(to_number) ==
    to_number = <<>> \/ ~StartsWith(to_number, "+")

\* initiate_outgoing_call, lines 158-163 and 165-169: validation, then the
\* call of make_twilio_outgoing_call
initiate_outgoing_call_start(i, to_number) ==
    IF initiate_outgoing_call_invalid(to_number)
    THEN [i EXCEPT !.pc = "done", !.to_number = to_number, !.status = "500",
                   !.message = <<"Failed to initiate call: ",
                                 "Invalid 'to_number' format. Must be E.164.">>]
    ELSE [i EXCEPT !.pc = "calling", !.to_number = to_number,
                   !.placed = Append(@, to_number)]

\* make_twilio_outgoing_call, lines 126-148: call.sid of the created call, or
\* the exception of twilio_client.calls.create raised again
make_twilio_outgoing_call(ok, sid) ==
    IF ok THEN [raised |-> FALSE, ret |-> sid]
    ELSE [raised |-> TRUE, ret |-> NONE]

\* a handler that answers a failed call of the service as a success
initiate_outgoing_call_placed_swallows(i, ok, sid) ==
    LET r == make_twilio_outgoing_call(ok, sid)
    IN  [i EXCEPT !.pc = "done", !.created = Append(@, r.ret),
                  !.status = "success",
                  !.message = <<"Outgoing call initiated.">>,
                  !.call_sid = r.ret]

\* initiate_outgoing_call, lines 163-169: the success result with the
\* call_sid, or the HTTPException 500 of the except clause
initiate_outgoing_call_placed(i, ok, sid) ==
    LET r == make_twilio_outgoing_call(ok, sid)
    IN  IF r.raised
        THEN [i EXCEPT !.pc = "done", !.created = Append(@, r.ret),
                       !.status = "500",
                       !.message = <<"Failed to initiate call: ", "TwilioException">>]
        ELSE [i EXCEPT !.pc = "done", !.created = Append(@, r.ret),
                       !.status = "success",
                       !.message = <<"Outgoing call initiated.">>,
                       !.call_sid = r.ret]

initiate_outgoing_call ==
    \/ /\ initiate.pc = "idle"
       /\ \E to_number \in RawStrings :
              initiate' = initiate_outgoing_call_start(IdleInitiate, to_number)
       /\ UNCHANGED <<personal_info, call, session, conversations, last, pair>>
    \/ /\ initiate.pc = "calling"
       /\ \E ok \in BOOLEAN, sid \in NewCallSids :
              initiate' = initiate_outgoing_call_placed(initiate, ok, sid)
       /\ UNCHANGED <<personal_info, call, session, conversations, last, pair>>

InitiateRespond ==
    /\ initiate.pc = "done"
    /\ initiate' = IdleInitiate
    /\ UNCHANGED <<personal_info, call, session, conversations, last, pair>>

-----------------------------------------------------------------------------
(* Conversation storage and prompt assembly: database/crud.py, ai/prompts.py *)

MaxConversations == 4

\* the slice bound of the summary, prompts.py line 99
SummaryChars == 500

\* the default of the limit parameter of get_past_conversations
DefaultLimit == 3

\* the callers whose conversations are stored
Callers == { format_number(parse(r)) :
               r \in { x \in FromNumbers :
                         /\ Truthy(x)
                         /\ ~NumberParseException(x)
                         /\ is_valid_number(parse(x)) } }

\* a transcript of n characters, ending in "z"
Transcript(n) ==
    [i \in 1..n |-> IF i = n THEN "z" ELSE IF i % 2 = 1 THEN "a" ELSE "b"]

\* a short transcript, one of exactly SummaryChars characters, one longer
Transcripts == { Transcript(n) : n \in { 2, SummaryChars, SummaryChars + 1 } }

SystemMessages == { NONE, <<"You are Bob.">> }

\* the conversations that get saved: every transcript and system message
\* for one caller, a short conversation for each other caller
ConversationInputs ==
    { <<p, t, m>> : p \in { CHOOSE c \in Callers : TRUE },
                    t \in Transcripts, m \in SystemMessages }
        \cup { <<p, Transcript(2), NONE>> : p \in Callers }

\* the phone_number arguments of generate_openai_instructions
PhoneArguments == { NONE, <<>> } \cup Callers

ConversationDB(id, phone_number, transcript, system_message) ==
    [id |-> id, phone_number |-> phone_number, transcript |-> transcript,
     system_message |-> system_message]

RECURSIVE Reverse(_)
Reverse(s) == IF s = <<>> THEN <<>> ELSE Append(Reverse(Tail(s)), Head(s))

Min(a, b) == IF a < b THEN a ELSE b

\* a save that overwrites the latest row of the phone number, if there is one
save_conversation_upsert(rows, phone_number, transcript, system_message) ==
    LET mine == { k \in DOMAIN rows : rows[k].phone_number = phone_number } IN
    IF mine = {}
    THEN Append(rows, ConversationDB(Len(rows) + 1, phone_number, transcript,
                                     system_message))
    ELSE LET k == CHOOSE i \in mine : \A j \in mine : j <= i
         IN  [rows EXCEPT ![k] = ConversationDB(rows[k].id, phone_number,
                                               transcript, system_message)]

\* save_conversation: the row is inserted with the next id and committed
save_conversation(rows, phone_number, transcript, system_message) ==
    Append(rows, ConversationDB(Len(rows) + 1, phone_number, transcript,
                                system_message))

\* a query ordered by ascending id
get_past_conversations_ascending(rows, phone_number, limit) ==
    LET found == SelectSeq(rows, LAMBDA r : r.phone_number = phone_number)
        oldest_first == SubSeq(found, 1, Min(limit, Len(found)))
    IN  [k \in 1..Len(oldest_first) |->
            <<oldest_first[k].transcript, oldest_first[k].system_message>>]

\* a query without the limit
get_past_conversations_unlimited(rows, phone_number, limit) ==
    LET found == SelectSeq(rows, LAMBDA r : r.phone_number = phone_number)
        newest_first == Reverse(found)
    IN  [k \in 1..Len(newest_first) |->
            <<newest_first[k].transcript, newest_first[k].system_message>>]

\* get_past_conversations: rows holds the table in ascending id, so the
\* filtered rows reversed are the rows by descending id
get_past_conversations(rows, phone_number, limit) ==
    LET found == SelectSeq(rows, LAMBDA r : r.phone_number = phone_number)
        newest_first == SubSeq(Reverse(found), 1, Min(limit, Len(found)))
    IN  [k \in 1..Len(newest_first) |->
            <<newest_first[k].transcript, newest_first[k].system_message>>]

BASE_INSTRUCTIONS ==
    <<"\n", "You are Alex, a friendly and professional sales agent for Super Truck AI,",
      "\n", "(...) Be concise and clear.", "\n">>

RETURNING_CALLER_INSTRUCTIONS ==
    <<"\n", "Remember you have spoken to this caller before. (...)", "\n">>

\* a summary that drops the marker
summary_without_marker(transcript) ==
    IF Len(transcript) > SummaryChars
    THEN SubSeq(transcript, 1, SummaryChars)
    ELSE transcript

\* generate_openai_instructions, line 99
summary(transcript) ==
    IF Len(transcript) > SummaryChars
    THEN SubSeq(transcript, 1, SummaryChars) \o <<".", ".", ".">>
    ELSE transcript

\* generate_openai_instructions, lines 96-101: the loop over
\* reversed(past_conversations), i counting from 0
RECURSIVE summaries(_, _)
summaries(past_conversations, i) ==
    IF i >= Len(past_conversations) THEN <<>>
    ELSE LET transcript == Reverse(past_conversations)[i + 1][1]
         IN  <<"Call ", ToString(Len(past_conversations) - i), ":\n">>
                \o summary(transcript) \o <<"\n\n">>
                \o summaries(past_conversations, i + 1)

\* generate_openai_instructions, lines 93-103
dynamic_context(past_conversations) ==
    <<"\n--- Previous Conversation Summary ---\n">>
        \o summaries(past_conversations, 0)
        \o <<"--- End of Summary ---\n">>

\* an assembly that takes every supplied phone number for a returning caller
generate_openai_instructions_by_phone(rows, phone_number) ==
    LET past_conversations ==
            IF Truthy(phone_number)
            THEN get_past_conversations(rows, phone_number, DefaultLimit)
            ELSE <<>>
    IN  IF ~Truthy(phone_number)
        THEN [full_instructions |-> BASE_INSTRUCTIONS, is_returning |-> FALSE]
        ELSE [full_instructions |->
                  BASE_INSTRUCTIONS \o <<"\n">> \o RETURNING_CALLER_INSTRUCTIONS
                      \o dynamic_context(past_conversations),
              is_returning |-> TRUE]

\* an assembly without the note for returning callers
generate_openai_instructions_without_note(rows, phone_number) ==
    LET past_conversations ==
            IF Truthy(phone_number)
            THEN get_past_conversations(rows, phone_number, DefaultLimit)
            ELSE <<>>
    IN  IF ~Truthy(phone_number) \/ past_conversations = <<>>
        THEN [full_instructions |-> BASE_INSTRUCTIONS, is_returning |-> FALSE]
        ELSE [full_instructions |->
                  BASE_INSTRUCTIONS \o dynamic_context(past_conversations),
              is_returning |-> TRUE]

\* the assembly of the comment at lines 82-85: the system message of the
\* latest conversation in the place of BASE_INSTRUCTIONS
generate_openai_instructions_replaces(rows, phone_number) ==
    LET past_conversations ==
            IF Truthy(phone_number)
            THEN get_past_conversations(rows, phone_number, DefaultLimit)
            ELSE <<>>
    IN  IF ~Truthy(phone_number) \/ past_conversations = <<>>
        THEN [full_instructions |-> BASE_INSTRUCTIONS, is_returning |-> FALSE]
        ELSE [full_instructions |->
                  (IF Truthy(past_conversations[1][2])
                   THEN past_conversations[1][2]
                   ELSE BASE_INSTRUCTIONS)
                      \o <<"\n">> \o RETURNING_CALLER_INSTRUCTIONS
                      \o dynamic_context(past_conversations),
              is_returning |-> TRUE]

\* generate_openai_instructions: previous_system_message is assigned at line
\* 80 and never read, so it is no part of the result
generate_openai_instructions(rows, phone_number) ==
    LET past_conversations ==
            IF Truthy(phone_number)
            THEN get_past_conversations(rows, phone_number, DefaultLimit)
            ELSE <<>>
    IN  IF ~Truthy(phone_number) \/ past_conversations = <<>>
        THEN [full_instructions |-> BASE_INSTRUCTIONS, is_returning |-> FALSE]
        ELSE [full_instructions |->
                  BASE_INSTRUCTIONS \o <<"\n">> \o RETURNING_CALLER_INSTRUCTIONS
                      \o dynamic_context(past_conversations),
              is_returning |-> TRUE]

\* a call of save_conversation
SaveConversation(phone_number, transcript, system_message) ==
    /\ last = IdleLast
    /\ Len(conversations) < MaxConversations
    /\ conversations' = save_conversation(conversations, phone_number,
                                          transcript, system_message)
    /\ last' = [op |-> "save_conversation", phone_number |-> phone_number,
                transcript |-> transcript, system_message |-> system_message]
    /\ UNCHANGED <<personal_info, call, session, initiate, pair>>

\* a call of generate_openai_instructions
GenerateInstructions(phone_number) ==
    /\ last = IdleLast
    /\ LET r == generate_openai_instructions(conversations, phone_number)
       IN  last' = [op |-> "generate_openai_instructions",
                    phone_number |-> phone_number,
                    full_instructions |-> r.full_instructions,
                    is_returning |-> r.is_returning]
    /\ UNCHANGED <<personal_info, call, session, initiate, conversations, pair>>

\* the limit arguments of get_past_conversations
Limits == { 1, DefaultLimit }

\* a call of get_past_conversations
GetPastConversations(phone_number, limit) ==
    /\ last = IdleLast
    /\ last' = [op |-> "get_past_conversations", phone_number |-> phone_number,
                limit |-> limit,
                ret |-> get_past_conversations(conversations, phone_number, limit)]
    /\ UNCHANGED <<personal_info, call, session, initiate, conversations, pair>>

\* the call returns to its caller
ReturnLast ==
    /\ last # IdleLast
    /\ last' = IdleLast
    /\ UNCHANGED <<personal_info, call, session, initiate, conversations, pair>>

-----------------------------------------------------------------------------
(* Direct calls of the persistence gateway: database/crud.py *)

\* the call_sid arguments: the default None, the empty string, two call
\* identifiers
CallSidArguments == { NONE, <<>>, <<"CA1">>, <<"CA2">> }

\* a call of get_or_create_personal_info; rows: the table before the call
GetOrCreatePersonalInfo(phone_number, call_sid, fault) ==
    /\ last = IdleLast
    /\ LET r == get_or_create_personal_info(personal_info, phone_number, call_sid, fault)
       IN  /\ personal_info' = r.rows
           /\ last' = [op |-> "get_or_create_personal_info",
                       phone_number |-> phone_number, call_sid |-> call_sid,
                       fault |-> fault, rows |-> personal_info,
                       raised |-> r.raised, ret |-> r.full_name]
    /\ UNCHANGED <<call, session, initiate, conversations, pair>>

\* a call of update_personal_info; rows: the table before the call
UpdatePersonalInfoCall(phone_number, name, email) ==
    /\ last = IdleLast
    /\ LET r == update_personal_info(personal_info, phone_number, name, email)
       IN  /\ personal_info' = r.rows
           /\ last' = [op |-> "update_personal_info",
                       phone_number |-> phone_number, name |-> name,
                       email |-> email, rows |-> personal_info,
                       raised |-> FALSE, ret |-> r.ret]
    /\ UNCHANGED <<call, session, initiate, conversations, pair>>

-----------------------------------------------------------------------------
(* Two inbound webhooks at a time: telephony/router.py, database/crud.py *)

Requests == { 1, 2 }

\* c: the request; unseen: the caller had no record when the first of the
\* webhooks of the caller that are under way arrived
IdlePair == [c |-> IdleCall, unseen |-> FALSE]

\* the webhooks of two callers, and one without From
PairPayloads ==
    { [CallSid |-> s, From |-> f, To |-> NONE] :
          s \in { <<"CA1">>, <<"CA2">> },
          f \in { <<"+", "1", "1", "1">>, <<"+", "1", "1", "2">> } }
      \cup { [CallSid |-> <<"CA1">>, From |-> NONE, To |-> NONE] }

\* handle_incoming, lines 62-70: the form is parsed and checked
handle_incoming_parsed(c) ==
    LET data == parse_twilio_request(c.payload)
        call_sid == data.call_sid
        phone_number == data.from_number
    IN
    IF ~Truthy(call_sid) \/ ~Truthy(phone_number)
    THEN Settle(Return(c, {}, ErrorProcessingCall))
    ELSE [c EXCEPT !.pc = "query", !.call_sid = call_sid,
                   !.phone_number = phone_number]

\* get_or_create_personal_info, lines 28-29: the query, on the table as it
\* is when the query runs
handle_incoming_queried(c, rows) ==
    [c EXCEPT !.pc = "commit",
              !.env = [@ EXCEPT !.rows = rows],
              !.log = @ \o <<Event("resolve", c.phone_number, c.call_sid),
                             Event("db_read", c.phone_number, c.call_sid)>>]

\* a commit that no unique constraint can fail
get_or_create_personal_info_commit_unconstrained(rows, found, phone_number, call_sid) ==
    IF found # {} THEN
        LET record == CHOOSE r \in found : TRUE
            stored == Query(rows, phone_number)
            updated == (rows \ stored)
                          \cup { [r EXCEPT !.call_sid = call_sid] : r \in stored }
        IN
        IF Truthy(call_sid) /\ record.call_sid # call_sid
        THEN [raised |-> FALSE, rows |-> updated, full_name |-> record.full_name]
        ELSE [raised |-> FALSE, rows |-> rows, full_name |-> record.full_name]
    ELSE
        [raised |-> FALSE, rows |-> rows \cup {PersonalInfoDB(phone_number, call_sid)},
         full_name |-> NONE]

\* get_or_create_personal_info, lines 32-51, on found, the result of the
\* query, and rows, the table as it is when the commit runs: the UPDATE of
\* the call_sid of the record, or the INSERT of a new record; a commit that
\* would break a unique constraint raises IntegrityError and stores nothing
get_or_create_personal_info_commit(rows, found, phone_number, call_sid) ==
    IF found # {} THEN
        LET record == CHOOSE r \in found : TRUE
            stored == Query(rows, phone_number)
            updated == (rows \ stored)
                          \cup { [r EXCEPT !.call_sid = call_sid] : r \in stored }
        IN
        IF Truthy(call_sid) /\ record.call_sid # call_sid THEN
            IF UniqueOk(updated) /\ Cardinality(updated) = Cardinality(rows)
            THEN [raised |-> FALSE, rows |-> updated, full_name |-> record.full_name]
            ELSE [raised |-> TRUE, rows |-> rows, full_name |-> NONE]
        ELSE [raised |-> FALSE, rows |-> rows, full_name |-> record.full_name]
    ELSE
        LET new_record == PersonalInfoDB(phone_number, call_sid)
            inserted   == rows \cup {new_record}
        IN
        IF UniqueOk(inserted) /\ Cardinality(inserted) = Cardinality(rows) + 1
        THEN [raised |-> FALSE, rows |-> inserted, full_name |-> NONE]
        ELSE [raised |-> TRUE, rows |-> rows, full_name |-> NONE]

\* handle_incoming, lines 73-76 and 85-87: get_or_create_personal_info
\* returns and the speech request is made, or it raises and the except
\* clause answers
handle_incoming_resolved(c, got) ==
    LET cleaned_number == Remove(c.phone_number, "+") IN
    IF got.raised
    THEN Settle(handle_incoming_except(Raise(c, got.rows)))
    ELSE [c EXCEPT !.pc = "greeting",
                   !.filename = greeting_filename(cleaned_number),
                   !.log = @ \o <<Event("db_write", c.phone_number, c.call_sid),
                                  Event("resolved", got.full_name, <<>>),
                                  Event("greet_req", got.full_name, cleaned_number)>>]

\* the carrier posts a webhook while the other may be under way
PairRequest(i, payload) ==
    /\ pair[i].c.pc = "idle"
    /\ LET j == CHOOSE k \in Requests : k # i
           unseen == IF pair[j].c.pc # "idle" /\ pair[j].c.payload.From = payload.From
                     THEN pair[j].unseen
                     ELSE Query(personal_info, payload.From) = {}
       IN  pair' = [pair EXCEPT ![i] = [c |-> NewCall("incoming", payload),
                                        unseen |-> unseen]]
    /\ UNCHANGED <<personal_info, call, session, initiate, conversations, last>>

\* line 62: the form has arrived
PairParse(i) ==
    /\ pair[i].c.pc = "form"
    /\ pair' = [pair EXCEPT ![i].c = handle_incoming_parsed(@)]
    /\ UNCHANGED <<personal_info, call, session, initiate, conversations, last>>

\* the query of get_or_create_personal_info
PairQuery(i) ==
    /\ pair[i].c.pc = "query"
    /\ pair' = [pair EXCEPT ![i].c = handle_incoming_queried(@, personal_info)]
    /\ UNCHANGED <<personal_info, call, session, initiate, conversations, last>>

\* the commit of get_or_create_personal_info
PairCommit(i) ==
    /\ pair[i].c.pc = "commit"
    /\ LET c == pair[i].c
           got == get_or_create_personal_info_commit(
                      personal_info, Query(c.env.rows, c.phone_number),
                      c.phone_number, c.call_sid)
       IN  /\ personal_info' = got.rows
           /\ pair' = [pair EXCEPT ![i].c = handle_incoming_resolved(c, got)]
    /\ UNCHANGED <<call, session, initiate, conversations, last>>

\* the speech request has ended
PairGreeted(i, tts_ok) ==
    /\ pair[i].c.pc = "greeting"
    /\ LET c == [pair[i].c EXCEPT !.env = [@ EXCEPT !.greeted = TRUE, !.tts_ok = tts_ok]]
       IN  pair' = [pair EXCEPT ![i].c =
                       Settle(handle_incoming_except(
                                  handle_incoming_greeted(c, personal_info, tts_ok)))]
    /\ UNCHANGED <<personal_info, call, session, initiate, conversations, last>>

\* the responses are sent and the requests are over
PairRespond ==
    /\ \E i \in Requests : pair[i].c.pc = "done"
    /\ \A i \in Requests : pair[i].c.pc \in { "idle", "done" }
    /\ pair' = [i \in Requests |-> IdlePair]
    /\ UNCHANGED <<personal_info, call, session, initiate, conversations, last>>

-----------------------------------------------------------------------------
(* Specifications *)

Init ==
    /\ personal_info = {}
    /\ call = IdleCall
    /\ session = [s \in Sessions |-> IdleSession]
    /\ initiate = IdleInitiate
    /\ conversations = <<>>
    /\ last = IdleLast
    /\ pair = [i \in Requests |-> IdlePair]

\* the webhooks and the storage
Next ==
    \/ \E entry \in Entries, payload \in Payloads : Request(entry, payload)
    \/ handle_incoming
    \/ handle_agent_incoming
    \/ handle_outgoing_handler
    \/ Respond
    \/ \E phone_number \in Phones, name \in Names \cup {NONE}, email \in Emails \cup {NONE} :
            UpdatePersonalInfo(phone_number, name, email)

Spec == Init /\ [][Next]_vars

\* the media-stream connections
NextSession == media_stream_endpoint

SpecSession == Init /\ [][NextSession]_vars

\* the initiate-call endpoint
NextInitiate == initiate_outgoing_call \/ InitiateRespond

SpecInitiate == Init /\ [][NextInitiate]_vars

\* the conversation storage and the prompt assembly
NextDigest ==
    \/ \E c \in ConversationInputs : SaveConversation(c[1], c[2], c[3])
    \/ \E phone_number \in PhoneArguments : GenerateInstructions(phone_number)
    \/ \E phone_number \in Callers, limit \in Limits :
            GetPastConversations(phone_number, limit)
    \/ ReturnLast

SpecDigest == Init /\ [][NextDigest]_vars

\* the persistence gateway called directly
NextGateway ==
    \/ \E phone_number \in Phones, call_sid \in CallSidArguments, fault \in BOOLEAN :
            GetOrCreatePersonalInfo(phone_number, call_sid, fault)
    \/ \E phone_number \in Phones, name \in Names \cup {NONE, <<>>},
          email \in Emails \cup {NONE, <<>>} :
            UpdatePersonalInfoCall(phone_number, name, email)
    \/ ReturnLast

SpecGateway == Init /\ [][NextGateway]_vars

\* two inbound webhooks handled at the same time
NextPair ==
    \/ \E i \in Requests, payload \in PairPayloads : PairRequest(i, payload)
    \/ \E i \in Requests : PairParse(i)
    \/ \E i \in Requests : PairQuery(i)
    \/ \E i \in Requests : PairCommit(i)
    \/ \E i \in Requests, tts_ok \in BOOLEAN : PairGreeted(i, tts_ok)
    \/ PairRespond

SpecPair == Init /\ [][NextPair]_vars

\* the webhooks of a new caller: one request with all fields, one without From
WaitPayloads ==
    { [CallSid |-> <<"CA1">>, From |-> <<"+", "1", "1", "1">>, To |-> <<"+", "1", "2", "1">>],
      [CallSid |-> <<"CA1">>, From |-> NONE, To |-> <<"+", "1", "2", "1">>] }

\* the handlers that wait on a collaborator: the inbound webhooks on the
\* speech request, the initiate endpoint on the placement of the call
NextWait ==
    \/ \E entry \in { "incoming", "agent" }, payload \in WaitPayloads :
            Request(entry, payload)
    \/ handle_incoming
    \/ handle_agent_incoming
    \/ Respond
    \/ initiate_outgoing_call
    \/ InitiateRespond

\* the steps the event loop takes on its own: a handler runs once its form
\* has arrived and a finished request is answered.  The steps that need a
\* collaborator to return, Resume and the placement of the call, are not
\* among them: no handler sets a timeout on its await.
HandlerSteps ==
    \/ \E entry \in { "incoming", "agent" }, form_ok, db_fault \in BOOLEAN :
            Start(entry, form_ok, db_fault)
    \/ Respond
    \/ InitiateRespond

SpecWait == Init /\ [][NextWait]_vars /\ WF_vars(HandlerSteps)


-----------------------------------------------------------------------------
(* Properties of the webhook handlers *)

Inbound == { "incoming", "agent" }

\* a form value that normalises to a canonical number
ValidNumber(raw) ==
    Truthy(raw) /\ ~NumberParseException(raw) /\ is_valid_number(parse(raw))

Canonical(raw) == format_number(parse(raw))

HasEvent(log, ev) == \E i \in DOMAIN log : log[i].ev = ev

HasVerb(m, verb) == \E i \in DOMAIN m : m[i].verb = verb

\* greeting instruction first, Connect/Stream last
IsStreamConnect(m) ==
    /\ Len(m) >= 2
    /\ m[1].verb \in { "Play", "Say" }
    /\ m[Len(m)].verb = "Connect"
    /\ \A i \in 1..(Len(m) - 1) : m[i].verb # "Connect"

IsErrorMarkup(entry, m) ==
    IF entry = "outgoing" THEN m = Hangup
    ELSE m \in { ErrorProcessingCall, InternalError }

\* the form read, the storage or the greeting collaborator failed on the
\* request (an identity resolution that began and did not end has raised)
Failed(c) ==
    \/ ~c.env.form_ok
    \/ (HasEvent(c.log, "resolve") /\ ~HasEvent(c.log, "resolved"))
    \/ (c.env.greeted /\ ~c.env.tts_ok)

\* C1: every invocation of the three webhook handlers ends with a response,
\* never with an unhandled fault; the response is the stream-connect markup
\* or a fixed error markup, and it is the error markup whenever payload
\* parsing, identity resolution or greeting synthesis failed.
C1_WebhookAlwaysResponds ==
    call.pc = "done" =>
        /\ call.outcome = "response"
        /\ IsStreamConnect(call.response) # IsErrorMarkup(call.entry, call.response)
        /\ Failed(call) => IsErrorMarkup(call.entry, call.response)

\* an inbound call whose identity resolution raised (a CallSid already
\* stored for another number) and that was answered with the error markup
C1_Witness ==
    /\ call.pc = "done"
    /\ call.entry = "incoming"
    /\ ~call.env.db_fault
    /\ HasEvent(call.log, "resolve") /\ ~HasEvent(call.log, "resolved")
    /\ call.response = InternalError

\* C4: in the events of one inbound call the greeting is requested only
\* after the identity has been resolved, with the resolved name, and the
\* stream markup is emitted only after the greeting result has arrived.
C4_ResolveGreetConnectOrder ==
    call.entry \in Inbound =>
        LET L == call.log IN
        \A i \in DOMAIN L :
            /\ L[i].ev = "greet_req" =>
                   \E j \in 1..(i - 1) : L[j].ev = "resolved" /\ L[j].a = L[i].a
            /\ L[i].ev = "greeted" =>
                   \E j \in 1..(i - 1) : L[j].ev = "greet_req"
            /\ L[i].ev = "emit" =>
                   \E j \in 1..(i - 1) : L[j].ev = "greeted"

\* an agent call that resolved a stored name, greeted and connected
C4_Witness ==
    /\ call.pc = "done"
    /\ call.entry = "agent"
    /\ HasEvent(call.log, "emit")
    /\ \E i \in DOMAIN call.log :
           call.log[i].ev = "resolved" /\ call.log[i].a \in Names

\* the payload has no CallSid, or its From is missing, unparsable or invalid
BadInbound(p) == ~Truthy(p.CallSid) \/ ~ValidNumber(p.From)

\* C5: an inbound webhook without CallSid, or without a valid From, is
\* answered with the fixed spoken-error markup; nothing is read from or
\* written to storage and no greeting is requested.
C5_BadInboundIsRejected ==
    (/\ call.pc = "done"
     /\ call.entry \in Inbound
     /\ call.env.form_ok
     /\ BadInbound(call.payload)) =>
        /\ call.outcome = "response"
        /\ call.response = ErrorProcessingCall
        /\ call.log = <<>>
        /\ ~call.env.greeted

\* a call with a CallSid whose From parses but is not a valid number
C5_Witness ==
    /\ call.pc = "done"
    /\ call.entry = "incoming"
    /\ call.env.form_ok
    /\ Truthy(call.payload.CallSid)
    /\ call.payload.From = <<"+", "1", "1">>
    /\ call.response = ErrorProcessingCall

\* the stream URL of a call identifier and a canonical number
StreamUrl(call_sid, phone_number) ==
    <<"wss://", "localhost:5050", "/media-stream/">> \o call_sid \o <<"/">> \o phone_number

\* C6: an inbound call with a CallSid and a valid From whose identity
\* resolution and greeting synthesis succeeded is answered with a greeting
\* instruction followed by a Connect/Stream to the URL of that CallSid and
\* of the canonical form of From.
C6_InboundStreamConnect ==
    (/\ call.pc = "done"
     /\ call.entry \in Inbound
     /\ Truthy(call.payload.CallSid)
     /\ ValidNumber(call.payload.From)
     /\ HasEvent(call.log, "resolved")
     /\ call.env.greeted /\ call.env.tts_ok) =>
        /\ call.outcome = "response"
        /\ IsStreamConnect(call.response)
        /\ call.response[Len(call.response)].arg =
               StreamUrl(call.payload.CallSid, Canonical(call.payload.From))

\* a call whose From is written with a separator and is connected under
\* its canonical number
C6_Witness ==
    /\ call.pc = "done"
    /\ call.entry = "incoming"
    /\ call.payload.From = <<"+", "1", "-", "1", "1">>
    /\ call.payload.CallSid = <<"CA1">>
    /\ call.response = <<Verb("Play", <<"http:", "//", "localhost:5050", "/",
                                         "temp_audio_path", "/", "greeting_",
                                         "1", "1", "1", ".mp3">>),
                         Verb("Pause", <<"1">>),
                         Verb("Connect", <<"wss://", "localhost:5050", "/media-stream/",
                                           "CA1", "/", "+", "1", "1", "1">>)>>

Other(entry) == IF entry = "incoming" THEN "agent" ELSE "incoming"

\* the same events and the same kind of response: the same stream-connect
\* markup, or an error
SameHandling(c, d) ==
    /\ c.log = d.log
    /\ c.outcome = d.outcome
    /\ IsStreamConnect(c.response) = IsStreamConnect(d.response)
    /\ IsStreamConnect(c.response) => c.response = d.response

\* what the other inbound entry point does with the request of call: the
\* same form, the same table, the same behaviour of the collaborators
SameAsOtherEntry ==
    \A t \in BOOLEAN :
        (call.env.greeted => t = call.env.tts_ok) =>
            SameHandling(call,
                         Run(Other(call.entry), call.payload, call.env.rows,
                             call.env.form_ok, call.env.db_fault, t))

-----------------------------------------------------------------------------
(* Properties of the media-stream endpoint *)

\* C2: an endpoint invocation that invoked start() has invoked stop() at
\* least once when it ends, however start() ended; stop() is not invoked
\* before start() has ended.
C2_StopAfterStart ==
    \A s \in Sessions :
        /\ session[s].pc = "done" => session[s].stops >= 1
        /\ session[s].stops >= 1 => session[s].exit \in Exits

\* an invocation whose task was cancelled and whose handler was stopped
C2_Witness ==
    \E s \in Sessions :
        /\ session[s].pc = "done"
        /\ session[s].exit = "cancelled"
        /\ session[s].stops = 1

\* C3: stop() invoked again on a stopped session releases nothing more:
\* resources are released at most once, and exactly once on every exit
\* path of the endpoint.
C3_StopIsIdempotent ==
    \A s \in Sessions :
        /\ session[s].releases <= 1
        /\ session[s].stops >= 1 =>
               (session[s].state = "STOPPED" /\ ~session[s].held /\ session[s].releases = 1)
        /\ session[s].pc = "done" => session[s].releases = 1

\* a disconnected session stopped by the except and by the finally clause
C3_Witness ==
    \E s \in Sessions :
        /\ session[s].pc = "done"
        /\ session[s].exit = "disconnect"
        /\ session[s].stops = 2
        /\ session[s].releases = 1

-----------------------------------------------------------------------------
(* Properties of the initiate-call endpoint *)

\* C10: an initiate request whose destination is empty or does not begin
\* with "+" ends with the error result and no destination is handed to the
\* outbound-call collaborator.
C10_MalformedDestinationRejected ==
    (/\ initiate.pc # "idle"
     /\ (Len(initiate.to_number) = 0 \/ initiate.to_number[1] # "+")) =>
        /\ initiate.pc = "done"
        /\ initiate.status = "500"
        /\ initiate.placed = <<>>

\* a request for a number without the leading "+"
C10_Witness ==
    /\ initiate.pc = "done"
    /\ initiate.to_number = <<"1", "2">>
    /\ initiate.status = "500"


\* C11: the outbound-call collaborator is invoked only for a destination in
\* canonical international format ("+", a valid country code and the digits
\* of a valid number); every other destination is rejected before it.
C11_OnlyCanonicalPlaced ==
    \A k \in DOMAIN initiate.placed :
        /\ ValidNumber(initiate.placed[k])
        /\ Canonical(initiate.placed[k]) = initiate.placed[k]

\* C12: an initiate request ends in exactly one outcome, the success result
\* carrying the call identifier the collaborator returned or the 500 error
\* with a message; a failure of the collaborator ends in the 500 error; the
\* collaborator is invoked at most once; nothing is stored and no markup is
\* emitted.
C12_InitiateOneOutcome ==
    /\ Len(initiate.placed) <= 1
    /\ Len(initiate.created) <= Len(initiate.placed)
    /\ personal_info = {}
    /\ conversations = <<>>
    /\ call = IdleCall
    /\ initiate.pc = "done" =>
          \/ /\ initiate.status = "success"
             /\ Len(initiate.created) = 1
             /\ initiate.created[1] \in NewCallSids
             /\ initiate.call_sid = initiate.created[1]
             /\ initiate.message = <<"Outgoing call initiated.">>
          \/ /\ initiate.status = "500"
             /\ initiate.call_sid = NONE
             /\ initiate.message # <<>>
             /\ \A k \in DOMAIN initiate.created : initiate.created[k] = NONE

\* the collaborator failed for a destination that passed the validation
C12_Witness ==
    /\ initiate.pc = "done"
    /\ initiate.status = "500"
    /\ initiate.placed = << <<"+", "1", "2", "1">> >>
    /\ initiate.created = <<NONE>>


-----------------------------------------------------------------------------
(* Properties of the prompt assembly *)

Built == last.op = "generate_openai_instructions"

IsPrefix(p, s) == Len(p) <= Len(s) /\ SubSeq(s, 1, Len(p)) = p

\* the conversations stored for a phone number, oldest first
Stored(phone_number) ==
    SelectSeq(conversations, LAMBDA r : r.phone_number = phone_number)

\* the DefaultLimit most recent of them, oldest first
Recent(phone_number) ==
    LET s == Stored(phone_number)
        n == Min(Len(s), DefaultLimit)
    IN  SubSeq(s, Len(s) - n + 1, Len(s))

\* a history is stored for the phone number of the call being returned
HasHistory == Truthy(last.phone_number) /\ Stored(last.phone_number) # <<>>

\* the positions at which the entries of the digest begin
CallMarks ==
    { i \in DOMAIN last.full_instructions : last.full_instructions[i] = "Call " }

Mark(k) ==
    CHOOSE i \in CallMarks : Cardinality({ j \in CallMarks : j < i }) = k - 1

\* the entry ends before the next entry or before the footer
EntryEnd(k) ==
    IF k = Cardinality(CallMarks) THEN Len(last.full_instructions) - 1
    ELSE Mark(k + 1) - 1

EntryLabel(k) == last.full_instructions[Mark(k) + 1]

\* the text between the ":\n" after the label and the "\n\n" closing the entry
EntryText(k) == SubSeq(last.full_instructions, Mark(k) + 3, EntryEnd(k) - 1)

\* a transcript as the digest is to show it
Shown(transcript) ==
    IF Len(transcript) > SummaryChars
    THEN SubSeq(transcript, 1, SummaryChars) \o <<".", ".", ".">>
    ELSE transcript

\* the entries of the digest are the recent conversations, oldest first
EntriesOldestFirst ==
    /\ Cardinality(CallMarks) = Len(Recent(last.phone_number))
    /\ \A k \in 1..Cardinality(CallMarks) :
           EntryText(k) = Shown(Recent(last.phone_number)[k].transcript)

\* C13: the entries of the digest appear oldest first and are numbered
\* ascending in that order: the oldest fetched conversation is labelled 1,
\* the newest N.
C13_EntriesNumberedAscending ==
    (Built /\ last.is_returning) =>
        /\ EntriesOldestFirst
        /\ \A k \in 1..Cardinality(CallMarks) : EntryLabel(k) = ToString(k)

\* C14: for a caller with a stored conversation the result is is_returning
\* with a text that has the no-history output as a strict prefix, followed
\* by the note for returning callers and the delimited digest; BASE_INSTRUCTIONS
\* is a prefix of every output.
C14_PreambleIsPrefix ==
    Built =>
        /\ IsPrefix(BASE_INSTRUCTIONS, last.full_instructions)
        /\ HasHistory =>
              LET no_history ==
                      generate_openai_instructions(<<>>, last.phone_number).full_instructions
                  text == last.full_instructions
                  note == <<"\n">> \o RETURNING_CALLER_INSTRUCTIONS
                              \o <<"\n--- Previous Conversation Summary ---\n">>
              IN  /\ last.is_returning
                  /\ no_history = BASE_INSTRUCTIONS
                  /\ IsPrefix(no_history, text)
                  /\ Len(text) > Len(no_history)
                  /\ IsPrefix(no_history \o note, text)
                  /\ CallMarks # {}
                  /\ \A i \in CallMarks : i > Len(no_history \o note)
                  /\ text[Len(text)] = "--- End of Summary ---\n"

\* a caller with two stored conversations
C14_Witness ==
    /\ Built
    /\ last.is_returning
    /\ Len(Stored(last.phone_number)) = 2

\* C15: the result is exactly BASE_INSTRUCTIONS and not is_returning when no
\* phone number is supplied or nothing is stored for it; is_returning holds
\* exactly when a phone number is supplied and a conversation is stored for it.
C15_ReturningExactlyWithHistory ==
    Built =>
        /\ last.is_returning <=> HasHistory
        /\ ~HasHistory => last.full_instructions = BASE_INSTRUCTIONS

\* a phone number without history while another caller has one
C15_Witness ==
    /\ Built
    /\ Truthy(last.phone_number)
    /\ conversations # <<>>
    /\ Stored(last.phone_number) = <<>>
    /\ ~last.is_returning

\* C16: a transcript of more than 500 characters is shown as its first 500
\* characters and the marker "...", a transcript of at most 500 characters
\* as it is.
C16_TranscriptTruncation ==
    (Built /\ last.is_returning) =>
        /\ Cardinality(CallMarks) = Len(Recent(last.phone_number))
        /\ \A k \in 1..Cardinality(CallMarks) :
              LET transcript == Recent(last.phone_number)[k].transcript
                  shown == EntryText(k)
              IN  IF Len(transcript) > SummaryChars
                  THEN /\ Len(shown) = SummaryChars + 3
                       /\ SubSeq(shown, 1, SummaryChars) = SubSeq(transcript, 1, SummaryChars)
                       /\ SubSeq(shown, SummaryChars + 1, SummaryChars + 3) = <<".", ".", ".">>
                  ELSE shown = transcript

\* a digest with a transcript of 501 characters and one of 500
C16_Witness ==
    /\ Built
    /\ last.is_returning
    /\ \E j, k \in DOMAIN Recent(last.phone_number) :
           /\ Len(Recent(last.phone_number)[j].transcript) = SummaryChars + 1
           /\ Len(Recent(last.phone_number)[k].transcript) = SummaryChars
           /\ Len(EntryText(j)) = SummaryChars + 3
           /\ Len(EntryText(k)) = SummaryChars

\* the length no output exceeds
MaxInstructions ==
    Len(BASE_INSTRUCTIONS) + 1 + Len(RETURNING_CALLER_INSTRUCTIONS) + 2
        + DefaultLimit * (SummaryChars + 3 + 4)

\* C17: the digest has min(N, 3) entries for N stored conversations, those of
\* the 3 most recently stored and of no older one, each with at most 500
\* characters and the marker; the length of the output is bounded.
C17_DigestBounded ==
    Built =>
        /\ Len(last.full_instructions) <= MaxInstructions
        /\ ~HasHistory => CallMarks = {}
        /\ HasHistory =>
              /\ Cardinality(CallMarks)
                    = Min(Len(Stored(last.phone_number)), DefaultLimit)
              /\ EntriesOldestFirst
              /\ \A k \in 1..Cardinality(CallMarks) :
                     Len(EntryText(k)) <= SummaryChars + 3

\* four conversations stored, the oldest of them the only long one
C17_Witness ==
    /\ Built
    /\ Len(Stored(last.phone_number)) = DefaultLimit + 1
    /\ Len(Stored(last.phone_number)[1].transcript) > SummaryChars
    /\ Cardinality(CallMarks) = DefaultLimit
    /\ \A k \in 1..DefaultLimit : Len(EntryText(k)) <= SummaryChars

\* the table with every stored system message replaced by m
WithSystemMessage(m) ==
    [k \in DOMAIN conversations |-> [conversations[k] EXCEPT !.system_message = m]]

\* C18: the output does not depend on the stored system messages: histories
\* with the same transcripts in the same order and other system messages give
\* the same text and is_returning, and BASE_INSTRUCTIONS is never replaced.
C18_IgnoresStoredInstructions ==
    Built =>
        /\ IsPrefix(BASE_INSTRUCTIONS, last.full_instructions)
        /\ \A m \in SystemMessages :
              LET r == generate_openai_instructions(WithSystemMessage(m), last.phone_number)
              IN  /\ r.full_instructions = last.full_instructions
                  /\ r.is_returning = last.is_returning

\* the latest conversation of the caller has a system message stored
C18_Witness ==
    /\ Built
    /\ last.is_returning
    /\ Truthy(Stored(last.phone_number)[Len(Stored(last.phone_number))].system_message)
    /\ WithSystemMessage(NONE) # conversations


-----------------------------------------------------------------------------
(* Properties of the persistence gateway *)

\* get_or_create_personal_info is being returned for a phone number that
\* had no record, the storage being available
ResolvedNewNumber ==
    /\ last.op = "get_or_create_personal_info"
    /\ ~last.fault
    /\ Query(last.rows, last.phone_number) = {}

\* the record was created: an absent name is returned and a lookup of the
\* number finds one record with the number, the call identifier, no name
CreatedOne ==
    /\ ~last.raised
    /\ last.ret = NONE
    /\ personal_info = last.rows \cup {PersonalInfoDB(last.phone_number, last.call_sid)}
    /\ Cardinality(personal_info) = Cardinality(last.rows) + 1
    /\ Query(personal_info, last.phone_number)
          = {PersonalInfoDB(last.phone_number, last.call_sid)}

\* the call identifier supplied is stored on the record of another number
CallSidTaken ==
    /\ last.call_sid # NONE
    /\ \E r \in last.rows : r.call_sid = last.call_sid

\* C19 as stated: for a phone number with no record the gateway returns an
\* absent name and creates exactly one record, which a lookup then finds
\* with the number, the supplied call identifier and no name; no error.
C19_Original == ResolvedNewNumber => CreatedOne

\* C19: the same unless the supplied call identifier is already stored for
\* another number; then the insert breaks the unique constraint on
\* call_sid, the gateway raises and no record is created.
C19_NewNumberCreatesOneRecord ==
    ResolvedNewNumber =>
        IF CallSidTaken
        THEN last.raised /\ personal_info = last.rows
        ELSE CreatedOne

\* a second number resolved with a call identifier of its own
C19_Witness ==
    /\ ResolvedNewNumber
    /\ last.rows # {}
    /\ last.call_sid # NONE
    /\ ~CallSidTaken
    /\ CreatedOne

\* C20: there is at most one record per phone number, and no step deletes
\* the record of a phone number or adds a second one.
C20_OneRecordPerPhoneKept ==
    [][/\ \A r1, r2 \in personal_info' :
              r1.phone_number = r2.phone_number => r1 = r2
       /\ \A r \in personal_info :
              \E r2 \in personal_info' : r2.phone_number = r.phone_number]_vars

\* two callers are on record, one of them already named, and the webhook
\* has just resolved a caller that was on record
C20_Witness ==
    /\ Cardinality(personal_info) = 2
    /\ \E r \in personal_info : r.full_name # NONE
    /\ call.pc = "done"
    /\ HasEvent(call.log, "resolved")
    /\ Query(call.env.rows, call.phone_number) # {}


\* get_or_create_personal_info is being returned for a phone number that
\* had a record, the storage being available
ResolvedKnownNumber ==
    /\ last.op = "get_or_create_personal_info"
    /\ ~last.fault
    /\ Query(last.rows, last.phone_number) # {}

\* the record the phone number had before the call
RecordBefore == CHOOSE r \in Query(last.rows, last.phone_number) : TRUE

\* the stored name is returned, no record is created, name and email are
\* kept, the call identifier changes only to a supplied one, every other
\* record is kept, and the same call once more changes nothing
KnownReturned ==
    /\ ~last.raised
    /\ last.ret = RecordBefore.full_name
    /\ Cardinality(personal_info) = Cardinality(last.rows)
    /\ \A r \in last.rows : r.phone_number # last.phone_number => r \in personal_info
    /\ \E r \in personal_info :
           /\ r.phone_number = last.phone_number
           /\ r.full_name = RecordBefore.full_name
           /\ r.email = RecordBefore.email
           /\ r.call_sid = IF Truthy(last.call_sid) THEN last.call_sid
                           ELSE RecordBefore.call_sid
    /\ LET again == get_or_create_personal_info(personal_info, last.phone_number,
                                                last.call_sid, FALSE)
       IN  /\ ~again.raised
           /\ again.rows = personal_info
           /\ again.full_name = last.ret

\* the supplied call identifier is stored on the record of another number
CallSidOfAnother ==
    /\ Truthy(last.call_sid)
    /\ \E r \in last.rows :
           r.phone_number # last.phone_number /\ r.call_sid = last.call_sid

\* C21 as stated: for a phone number with a record the gateway returns the
\* stored name, creates nothing, keeps name and email, changes the call
\* identifier only when one is supplied and differs; a repeat changes nothing.
C21_Original == ResolvedKnownNumber => KnownReturned

\* C21: the same unless the supplied call identifier is already stored for
\* another number; then the commit breaks the unique constraint on
\* call_sid, the gateway raises and the table is left as it was.
C21_KnownNumberKeepsRecord ==
    ResolvedKnownNumber =>
        IF CallSidOfAnother
        THEN last.raised /\ personal_info = last.rows
        ELSE KnownReturned

\* a named caller calls again with a new call identifier
C21_Witness ==
    /\ ResolvedKnownNumber
    /\ RecordBefore.full_name # NONE
    /\ last.ret = RecordBefore.full_name
    /\ Truthy(last.call_sid)
    /\ RecordBefore.call_sid # last.call_sid
    /\ ~CallSidOfAnother
    /\ Cardinality(personal_info) = 2

\* update_personal_info is being returned
Updated == last.op = "update_personal_info"

\* the fields of the record a call of update_personal_info is to change
NameChanges ==
    /\ Query(last.rows, last.phone_number) # {}
    /\ Truthy(last.name)
    /\ RecordBefore.full_name # last.name

EmailChanges ==
    /\ Query(last.rows, last.phone_number) # {}
    /\ Truthy(last.email)
    /\ RecordBefore.email # last.email

\* C22: update_personal_info changes only the fields supplied that differ
\* from the stored value, keeps every other field and record, creates no
\* record, and returns true exactly when a stored field changed.
C22_UpdateChangesSuppliedFields ==
    Updated =>
        /\ ~last.raised
        /\ Cardinality(personal_info) = Cardinality(last.rows)
        /\ { r.phone_number : r \in personal_info } = { r.phone_number : r \in last.rows }
        /\ \A r \in last.rows : r.phone_number # last.phone_number => r \in personal_info
        /\ last.ret <=> personal_info # last.rows
        /\ last.ret <=> (NameChanges \/ EmailChanges)
        /\ Query(last.rows, last.phone_number) # {} =>
              \E r \in personal_info :
                  /\ r.phone_number = last.phone_number
                  /\ r.call_sid = RecordBefore.call_sid
                  /\ r.full_name = IF NameChanges THEN last.name ELSE RecordBefore.full_name
                  /\ r.email = IF EmailChanges THEN last.email ELSE RecordBefore.email

\* the stored name is supplied again with a new email: only the email changes
C22_Witness ==
    /\ Updated
    /\ Query(last.rows, last.phone_number) # {}
    /\ Truthy(last.name)
    /\ RecordBefore.full_name = last.name
    /\ EmailChanges
    /\ last.ret
    /\ Cardinality(personal_info) = 2


-----------------------------------------------------------------------------
(* Properties of the conversation storage *)

\* C23: get_past_conversations(phone_number, limit) returns at most limit
\* entries, those of the conversations most recently saved for the phone
\* number, newest first, and changes no stored record.
C23_RecentConversationsNewestFirst ==
    [][(last.op = "none" /\ last'.op = "get_past_conversations") =>
          LET stored == Stored(last'.phone_number)
              ret    == last'.ret
          IN  /\ conversations' = conversations
              /\ personal_info' = personal_info
              /\ Len(ret) <= last'.limit
              /\ Len(ret) = Min(last'.limit, Len(stored))
              /\ \A k \in DOMAIN ret :
                     LET r == stored[Len(stored) - k + 1]
                     IN  /\ r.phone_number = last'.phone_number
                         /\ ret[k] = <<r.transcript, r.system_message>>]_vars

\* three conversations of different lengths are stored for the caller and
\* one of another caller, and the newest one is asked for
C23_Witness ==
    /\ last.op = "get_past_conversations"
    /\ last.limit = 1
    /\ Len(Stored(last.phone_number)) = 3
    /\ Len(conversations) = 4
    /\ Len(Stored(last.phone_number)[1].transcript) # Len(Stored(last.phone_number)[3].transcript)
    /\ last.ret = << <<Stored(last.phone_number)[3].transcript,
                       Stored(last.phone_number)[3].system_message>> >>

\* C24: the conversations are append-only: save_conversation adds one row
\* and changes or removes none, so every row keeps the phone number,
\* transcript and system message it was written with, in the order of creation.
C24_ConversationsAppendOnly ==
    [][/\ IsPrefix(conversations, conversations')
       /\ Len(conversations') <= Len(conversations) + 1
       /\ \A j, k \in DOMAIN conversations' :
              j < k => conversations'[j].id < conversations'[k].id
       /\ (last.op = "none" /\ last'.op = "save_conversation") =>
              /\ Len(conversations') = Len(conversations) + 1
              /\ LET row == conversations'[Len(conversations')]
                 IN  /\ row.phone_number = last'.phone_number
                     /\ row.transcript = last'.transcript
                     /\ row.system_message = last'.system_message]_vars

\* a second conversation has been saved for a caller, after the first
C24_Witness ==
    /\ last.op = "save_conversation"
    /\ Len(Stored(last.phone_number)) = 2
    /\ Stored(last.phone_number)[2].transcript = last.transcript
    /\ Stored(last.phone_number)[1].transcript # last.transcript


-----------------------------------------------------------------------------
(* Properties of concurrent media-stream connections *)

\* the connection was disconnected and is in, or through, its teardown
Disconnected(h) == h.exit = "disconnect"

-----------------------------------------------------------------------------
(* Properties of the waits on collaborators *)

\* C26: a handler that waits on a collaborator eventually produces its
\* response, whether or not the collaborator ever returns: the inbound
\* webhooks waiting on the speech request, the initiate endpoint waiting on
\* the placement of the call.
C26_HandlersBoundWaiting ==
    /\ (call.pc = "greeting") ~> (call.pc = "done")
    /\ (initiate.pc = "calling") ~> (initiate.pc = "done")


-----------------------------------------------------------------------------
(* Properties of the dialed number and of later calls *)

\* sub occurs in s
Contains(s, sub) ==
    \E i \in 0..(Len(s) - Len(sub)) : SubSeq(s, i + 1, i + Len(sub)) = sub

\* an agent call answered with the stream-connect markup
AgentConnected ==
    /\ call.pc = "done"
    /\ call.entry = "agent"
    /\ IsStreamConnect(call.response)

GreetingFailedForNewNumber ==
    /\ call.pc = "done"
    /\ call.entry \in Inbound
    /\ call.env.greeted /\ ~call.env.tts_ok
    /\ Query(call.env.rows, call.phone_number) = {}

\* C29: when the greeting fails for a number that had no record, the record
\* created by the resolve step stays stored after the error response, and
\* a later call from the number finds it and creates none.
C29_RecordSurvivesGreetingFailure ==
    GreetingFailedForNewNumber =>
        /\ call.response = InternalError
        /\ Cardinality(Query(personal_info, call.phone_number)) = 1
        /\ \A sid \in { <<"CA1">>, <<"CA2">> } :
               LET later == get_or_create_personal_info(personal_info, call.phone_number,
                                                        sid, FALSE)
               IN  /\ Cardinality(later.rows) = Cardinality(personal_info)
                   /\ Cardinality(Query(later.rows, call.phone_number)) = 1
                   /\ { r.phone_number : r \in later.rows }
                         = { r.phone_number : r \in personal_info }

\* the first call of +111 ended with the error response, its record stored
C29_Witness ==
    /\ GreetingFailedForNewNumber
    /\ call.entry = "incoming"
    /\ call.env.rows = {}
    /\ personal_info = {PersonalInfoDB(<<"+", "1", "1", "1">>, <<"CA1">>)}

\* C30: the outgoing-connected webhook with a CallSid and a valid To is
\* answered with the spoken line and the Connect/Stream of that CallSid and
\* To, whatever the From field holds.
C30_OutgoingIgnoresFrom ==
    (/\ call.pc = "done"
     /\ call.entry = "outgoing"
     /\ call.env.form_ok
     /\ Truthy(call.payload.CallSid)
     /\ ValidNumber(call.payload.To)) =>
        call.response =
            <<Verb("Say", <<"Hello! This is Alex from Super Truck AI.">>),
              Verb("Connect", StreamUrl(call.payload.CallSid,
                                        Canonical(call.payload.To)))>>



-----------------------------------------------------------------------------
(* Properties of two inbound webhooks handled at the same time *)

\* both webhooks are over, and they came from one number that had no record
\* when the first of them arrived
PairOfUnseenCaller ==
    /\ \A i \in Requests : pair[i].c.pc = "done"
    /\ \A i \in Requests : Truthy(pair[i].c.phone_number) /\ pair[i].unseen
    /\ pair[1].c.phone_number = pair[2].c.phone_number

\* the webhook was answered with call-control markup
PairAnswered(i) ==
    /\ pair[i].c.outcome = "response"
    /\ \/ IsStreamConnect(pair[i].c.response)
       \/ IsErrorMarkup("incoming", pair[i].c.response)

\* the records of the number of the two webhooks
PairRecords == Query(personal_info, pair[1].c.phone_number)

\* the call identifier of the webhook is stored for another number
PairCallSidOfAnother(i) ==
    \E r \in personal_info :
        /\ r.phone_number # pair[i].c.phone_number
        /\ r.call_sid = pair[i].c.call_sid

\* C28 as stated: after two inbound webhooks for one previously unseen
\* number, handled at the same time, exactly one identity record for the
\* number exists and each webhook was answered with call-control markup.
C28_Original ==
    PairOfUnseenCaller =>
        /\ Cardinality(PairRecords) = 1
        /\ \A i \in Requests : PairAnswered(i)

\* C28: after two inbound webhooks for one previously unseen number, handled
\* at the same time in any interleaving of their steps, each webhook was
\* answered with call-control markup and at most one identity record for the
\* number exists; exactly one exists unless the call identifier of each of
\* the two is stored for another number, and then none exists and both were
\* answered with the error markup.
C28_ConcurrentWebhooksOneRecord ==
    PairOfUnseenCaller =>
        /\ \A i \in Requests : PairAnswered(i)
        /\ IF \A i \in Requests : PairCallSidOfAnother(i)
           THEN /\ PairRecords = {}
                /\ \A i \in Requests : pair[i].c.response = InternalError
           ELSE Cardinality(PairRecords) = 1

\* both webhooks queried before either committed: one created the record,
\* the other was answered with the error markup
C28_Witness ==
    /\ PairOfUnseenCaller
    /\ \A i \in Requests : Query(pair[i].c.env.rows, pair[i].c.phone_number) = {}
    /\ Cardinality(PairRecords) = 1
    /\ \E i, j \in Requests : /\ IsStreamConnect(pair[i].c.response)
                             /\ pair[j].c.response = InternalError

=============================================================================
